---- MODULE Spec2Model ----
(***************************************************************************)
(* Model of segment_saver (src/unnamed/part_000): one object is built per  *)
(* manifest-refresh cycle from the two segment indexes and the URIs        *)
(* returned by the previous cycle; processSegments then downloads, merges, *)
(* decrypts and publishes every new segment, audio before video, and       *)
(* returns the URIs of the last segments it handled.                       *)
(*                                                                         *)
(* URIs are integers: InitURI is the init segment, 1..MaxSeg the media     *)
(* segments of the live stream in stream order, NullURI is null.  A file   *)
(* name is the integer of the URI it was derived from.                     *)
(***************************************************************************)
EXTENDS Integers, Sequences, FiniteSets, TLC

\* ---------------------------------------------------------------- bounds
\* media segments of the live stream
MaxSeg == 3
\* cycles the driver runs
MaxCycles == 2
\* largest playlist capacity tried
MaxCap == 2

\* ------------------------------------------------------------- constants
Tracks == {"audio", "video"}
NullURI == -1
InitURI == 0
\* base name "init.mp4"
InitFile == 0
\* base name of an init segment that is not called init.mp4
OtherInitFile == 50
\* this.cancelPending_ is null
NoTimer == 0
\* calls of tickAfter
MaxTicks == 3
\* calls of stop
MaxStops == 2
\* a variable that holds undefined
UndefinedDuration == -1
\* the cycle returned without suspending
NoSleep == -1

VARIABLES
  maxSegmentNum_,        \* this.maxSegmentNum_
  initFileName,          \* base name of the init segment's URI
  window,                \* per track <<lo, hi>>: the references of the index
  lastSegmentURI,        \* per track, the URI the driver hands to the constructor
  segmentURIList_,       \* this.audioSegmentURIList_ / this.videoSegmentURIList_
  segmentDurationList_,  \* this.audioSegmentDurationList_ / videoSegmentDurationList_
  pc,                    \* position of the cycle
  i, j,                  \* loop variables of processSegmentList
  lastURI,               \* lastAudioURI / lastVideoURI
  playlist,              \* per track, mediaPlaylistTemplate (in memory)
  playlistFile,          \* per track, the playlist file last written
  resultFiles,           \* per track, files under resultPath_
  savedFiles,            \* per track, files under savePath_
  mergedFiles,           \* per track, files under mergePath_
  err,                   \* what the cycle threw
  failStage,             \* the step that threw
  cycle,                 \* cycles constructed so far
  committed,             \* history: per track, URIs appended in this cycle
  done,                  \* history: per track, URIs appended in earlier cycles
  total,                 \* history: per track, appends completed since Init
  playlistStart,         \* history: per track, the template at the start of the cycle
  alignedFrom,           \* history: per track, the URI list before alignment
  segmentDuration,       \* var segmentDuration of processSegmentList
  pacing,                \* history: the pacing of the cycle that returned last
  log,                   \* history: the steps the cycle has started, in order
  cancelPending_,        \* delayed_tick: this.cancelPending_, the timer it cancels
  timers,                \* delayed_tick: the timeouts set so far, with their closures
  stops                  \* history: calls of delayed_tick.stop() from outside

saverVars == <<maxSegmentNum_, initFileName, window, lastSegmentURI, segmentURIList_,
          segmentDurationList_, pc, i, j, lastURI, playlist, playlistFile,
          resultFiles, savedFiles, mergedFiles, err, failStage, cycle,
          committed, done, total, playlistStart, alignedFrom, segmentDuration,
          pacing, log>>

tickVars == <<cancelPending_, timers, stops>>

vars == <<saverVars, tickVars>>

\* ---------------------------------------------------------------- helpers
Max(a, b) == IF a >= b THEN a ELSE b
Min(a, b) == IF a <= b THEN a ELSE b
Abs(a) == IF a >= 0 THEN a ELSE 0 - a

\* Array.prototype.slice(from) with a 0-based index
Slice(s, from) == SubSeq(s, from + 1, Len(s))

\* segmentIndex.references of a window lo..hi of the stream
References(w) == [k \in 1..Max(0, w[2] - w[1] + 1) |-> w[1] + k - 1]

\* ref.endTime - ref.startTime
RefDuration(ref) == 1 + (ref % 2)

\* segmentUrl.split('/').pop(), and the name decryption gives the result
SegmentName(segmentUrl) == IF segmentUrl = InitURI THEN initFileName ELSE segmentUrl

\* both branches of the inner loop taking the audio lists
TrackOf_AudioOnly(jj) == "audio"

\* the video branch taken first
TrackOf_VideoFirst(jj) == IF jj = 0 THEN "video" ELSE "audio"

TrackOf(jj) == IF jj = 0 THEN "audio" ELSE "video"

\* --------------------------------------------------------- reconciliation
\* the callback of segmentIndex.forEachTopLevelReference, applied to the
\* references k..Len(refArray) in index order; out holds segmentURIList,
\* segmentDurationList, totalList and totalSegList
RECURSIVE forEachTopLevelReference(_, _, _, _, _)
forEachTopLevelReference(refArray, lastURIArg, k, foundLatestName, out) ==
  IF k > Len(refArray) THEN out
  ELSE LET segURI == refArray[k]
           segDuration == RefDuration(refArray[k])
           pushed == [uris |-> IF foundLatestName THEN Append(out.uris, segURI) ELSE out.uris,
                      durs |-> IF foundLatestName THEN Append(out.durs, segDuration) ELSE out.durs,
                      totalList |-> Append(out.totalList, segURI),
                      totalSegList |-> Append(out.totalSegList, segDuration)]
       IN forEachTopLevelReference(refArray, lastURIArg, k + 1,
                                   foundLatestName \/ segURI = lastURIArg, pushed)

\* the fallback taking the first maxN references: slice(0, maxN)
TakeLast_First(scan, maxN) ==
  IF Len(scan.uris) = 1 /\ Len(scan.totalList) >= 0
  THEN [uris |-> scan.uris \o SubSeq(scan.totalList, 1, Min(maxN, Len(scan.totalList))),
        durs |-> scan.durs \o SubSeq(scan.totalSegList, 1, Min(maxN, Len(scan.totalSegList)))]
  ELSE [uris |-> scan.uris, durs |-> scan.durs]

\* the fallback: the last maxN references when nothing follows lastSegmentURI
TakeLast(scan, maxN) ==
  IF Len(scan.uris) = 1 /\ Len(scan.totalList) >= 0
  THEN LET firstIndex == Max(0, Len(scan.totalList) - maxN)
       IN [uris |-> scan.uris \o Slice(scan.totalList, firstIndex),
           durs |-> scan.durs \o Slice(scan.totalSegList, firstIndex)]
  ELSE [uris |-> scan.uris, durs |-> scan.durs]

\* the init element given the duration of the first reference
getSegmentInfoList_InitDuration(refArray, lastURIArg, maxN) ==
  IF Len(refArray) = 0 THEN [uris |-> <<>>, durs |-> <<>>]
  ELSE TakeLast(forEachTopLevelReference(refArray, lastURIArg, 1, FALSE,
                  [uris |-> <<InitURI>>, durs |-> <<RefDuration(refArray[1])>>,
                   totalList |-> <<>>, totalSegList |-> <<>>]), maxN)

\* the URI list and the duration list the constructor is left with
getSegmentInfoList_(refArray, lastURIArg, maxN) ==
  IF Len(refArray) = 0 THEN [uris |-> <<>>, durs |-> <<>>]
  ELSE TakeLast(forEachTopLevelReference(refArray, lastURIArg, 1, FALSE,
                  [uris |-> <<InitURI>>, durs |-> <<0>>,
                   totalList |-> <<>>, totalSegList |-> <<>>]), maxN)

\* ------------------------------------------------------------------- Init
\* no cycle has returned since the constructor ran
NotPaced == [elapsed |-> 0, updateDuration |-> 0, slept |-> NoSleep]

EmptyLists == [t \in Tracks |-> <<>>]
NoFiles == [t \in Tracks |-> {}]

\* a playlist template: the header item and the #EXTINF items after it
Template(hasSeq, seq, items) == [hasSeq |-> hasSeq, seq |-> seq, items |-> items]

Init ==
  /\ maxSegmentNum_ \in 1..MaxCap
  /\ initFileName \in {InitFile, OtherInitFile}
  /\ window = [t \in Tracks |-> <<1, 0>>]
  /\ lastSegmentURI = [t \in Tracks |-> NullURI]
  /\ segmentURIList_ = EmptyLists
  /\ segmentDurationList_ = EmptyLists
  /\ pc = "idle"
  /\ i = 0
  /\ j = 0
  /\ lastURI = [t \in Tracks |-> NullURI]
  /\ \E hasSeq \in BOOLEAN, seq \in {0, 1} :
       playlist = [t \in Tracks |-> Template(hasSeq, seq, <<>>)]
  /\ playlistFile = playlist
  /\ resultFiles = NoFiles
  /\ savedFiles = NoFiles
  /\ mergedFiles = NoFiles
  /\ err = "none"
  /\ failStage = "none"
  /\ cycle = 0
  /\ committed = EmptyLists
  /\ done = NoFiles
  /\ total = [t \in Tracks |-> 0]
  /\ playlistStart = playlist
  /\ alignedFrom = EmptyLists
  /\ segmentDuration = UndefinedDuration
  /\ pacing = NotPaced
  /\ log = <<>>
  /\ cancelPending_ = NoTimer
  /\ timers = <<>>
  /\ stops = 0

\* ------------------------------------------------------------ constructor
\* the index at the next refresh: references are gained at the tail and
\* lost at the head
NextWindows(w) ==
  {<<lo, hi>> : lo \in w[1]..(MaxSeg + 1), hi \in w[2]..MaxSeg} \cap
  {v \in (1..(MaxSeg + 1)) \X (0..MaxSeg) : v[1] <= v[2] + 1}

\* new segment_saver(...): both tracks are reconciled against the URIs the
\* previous cycle returned
Construct ==
  /\ pc = "idle"
  /\ UNCHANGED tickVars
  /\ cycle < MaxCycles
  /\ \E wa \in NextWindows(window["audio"]), wv \in NextWindows(window["video"]) :
       LET w == [t \in Tracks |-> IF t = "audio" THEN wa ELSE wv]
           info == [t \in Tracks |->
                      getSegmentInfoList_(References(w[t]), lastSegmentURI[t], maxSegmentNum_)]
       IN /\ window' = w
          /\ segmentURIList_' = [t \in Tracks |-> info[t].uris]
          /\ segmentDurationList_' = [t \in Tracks |-> info[t].durs]
  /\ pc' = "constructed"
  /\ cycle' = cycle + 1
  /\ committed' = EmptyLists
  /\ playlistStart' = playlist
  /\ alignedFrom' = EmptyLists
  /\ pacing' = NotPaced
  /\ log' = <<>>
  /\ UNCHANGED <<maxSegmentNum_, initFileName, lastSegmentURI, i, j, lastURI, playlist,
                 playlistFile, resultFiles, savedFiles, mergedFiles, err, failStage,
                 done, total, segmentDuration>>

\* ---------------------------------------------------------- processSegments
\* Array.prototype.pop(), n times
RECURSIVE PopTimes(_, _)
PopTimes(list, n) ==
  IF n = 0 THEN list
  ELSE PopTimes(IF Len(list) = 0 THEN list ELSE SubSeq(list, 1, Len(list) - 1), n - 1)

\* the surplus dropped from the shorter list: the sign of sizeOffest mistaken
AlignLists_WrongList(audioList, videoList) ==
  LET sizeOffest == Len(videoList) - Len(audioList)
  IN IF Len(audioList) # Len(videoList)
     THEN [audio |-> IF sizeOffest < 0 THEN audioList ELSE PopTimes(audioList, Abs(sizeOffest)),
           video |-> IF sizeOffest < 0 THEN PopTimes(videoList, Abs(sizeOffest)) ELSE videoList]
     ELSE [audio |-> audioList, video |-> videoList]

\* the URI lists after the loop that drops the surplus of the longer one
AlignLists(audioList, videoList) ==
  LET sizeOffest == Len(videoList) - Len(audioList)
  IN IF Len(audioList) # Len(videoList)
     THEN [audio |-> IF sizeOffest > 0 THEN audioList ELSE PopTimes(audioList, Abs(sizeOffest)),
           video |-> IF sizeOffest > 0 THEN PopTimes(videoList, Abs(sizeOffest)) ELSE videoList]
     ELSE [audio |-> audioList, video |-> videoList]

\* the inner loop left after the audio pass
LoopAfter_AudioOnly(ii, jj, length) ==
  [i |-> ii + 1, j |-> 0, pc |-> IF ii + 1 < length THEN "fetch" ELSE "cleanup"]

\* where the loops stand after the body for (ii, jj) ended without a throw
LoopAfter(ii, jj, length) ==
  IF jj = 0 THEN [i |-> ii, j |-> 1, pc |-> "fetch"]
  ELSE [i |-> ii + 1, j |-> 0, pc |-> IF ii + 1 < length THEN "fetch" ELSE "cleanup"]

\* processSegments up to the first pass of the loop
Align ==
  /\ pc = "constructed"
  /\ UNCHANGED tickVars
  /\ LET aligned == AlignLists(segmentURIList_["audio"], segmentURIList_["video"])
     IN /\ segmentURIList_' = [t \in Tracks |-> aligned[t]]
        /\ pc' = IF 0 < Len(aligned["audio"]) THEN "fetch" ELSE "cleanup"
  /\ alignedFrom' = segmentURIList_
  /\ i' = 0
  /\ j' = 0
  /\ lastURI' = [t \in Tracks |-> NullURI]
  /\ segmentDuration' = UndefinedDuration
  /\ UNCHANGED <<maxSegmentNum_, initFileName, window, lastSegmentURI,
                 segmentDurationList_, playlist, playlistFile, resultFiles, savedFiles,
                 mergedFiles, err, failStage, cycle, committed, done, total,
                 playlistStart, pacing, log>>

\* the cycle throws: nothing after the throwing statement runs
Throw(stage, what) ==
  /\ pc' = "failed"
  /\ failStage' = stage
  /\ err' = what

CurrentTrack == TrackOf(j)
CurrentUrl == segmentURIList_[CurrentTrack][i + 1]
CurrentDuration == segmentDurationList_[CurrentTrack][i + 1]

\* a step of the loop body for the current segment starts
Started(stage) == log' = Append(log, [stage |-> stage, i |-> i, track |-> CurrentTrack])

\* the head of the loop body and the download of the segment
Fetch ==
  /\ pc = "fetch"
  /\ UNCHANGED tickVars
  /\ lastURI' = [lastURI EXCEPT ![CurrentTrack] = CurrentUrl]
  /\ segmentDuration' = CurrentDuration
  /\ Started("fetch")
  /\ \/ /\ savedFiles' = [savedFiles EXCEPT ![CurrentTrack] = @ \cup {SegmentName(CurrentUrl)}]
        /\ IF SegmentName(CurrentUrl) # InitFile
           THEN pc' = "merge" /\ UNCHANGED <<i, j>>
           ELSE LET nxt == LoopAfter(i, j, Len(segmentURIList_["audio"]))
                IN i' = nxt.i /\ j' = nxt.j /\ pc' = nxt.pc
        /\ UNCHANGED <<err, failStage>>
     \/ /\ Throw("fetch", "download")
        /\ UNCHANGED <<savedFiles, i, j>>
  /\ UNCHANGED <<maxSegmentNum_, initFileName, window, lastSegmentURI, segmentURIList_,
                 segmentDurationList_, playlist, playlistFile, resultFiles, mergedFiles,
                 cycle, committed, done, total, playlistStart, alignedFrom, pacing>>

\* mergeFiles([init.mp4, segment]): it cannot succeed without the init file
Merge ==
  /\ pc = "merge"
  /\ UNCHANGED tickVars
  /\ Started("merge")
  /\ \/ /\ InitFile \in savedFiles[CurrentTrack]
        /\ mergedFiles' = [mergedFiles EXCEPT ![CurrentTrack] = @ \cup {SegmentName(CurrentUrl)}]
        /\ pc' = "decrypt"
        /\ UNCHANGED <<err, failStage>>
     \/ /\ Throw("merge", "SEGMENT_MANIPULATION_FAILED")
        /\ UNCHANGED mergedFiles
  /\ UNCHANGED <<maxSegmentNum_, initFileName, window, lastSegmentURI, segmentURIList_,
                 segmentDurationList_, i, j, lastURI, playlist, playlistFile, resultFiles,
                 savedFiles, cycle, committed, done, total, playlistStart, alignedFrom,
                 segmentDuration, pacing>>

\* shell.exec(decryptCommand): exit code 0 leaves the decrypted file
Decrypt ==
  /\ pc = "decrypt"
  /\ UNCHANGED tickVars
  /\ Started("decrypt")
  /\ \/ /\ resultFiles' = [resultFiles EXCEPT ![CurrentTrack] = @ \cup {SegmentName(CurrentUrl)}]
        /\ pc' = "append"
        /\ UNCHANGED <<err, failStage>>
     \/ /\ Throw("decrypt", "SEGMENT_MANIPULATION_FAILED")
        /\ UNCHANGED resultFiles
  /\ UNCHANGED <<maxSegmentNum_, initFileName, window, lastSegmentURI, segmentURIList_,
                 segmentDurationList_, i, j, lastURI, playlist, playlistFile, savedFiles,
                 mergedFiles, cycle, committed, done, total, playlistStart, alignedFrom,
                 segmentDuration, pacing>>

\* ------------------------------------------------------------ playlist step
\* the #EXTINF item of a decrypted segment
SegmentTemplate(duration, name) == [dur |-> duration, name |-> name]

\* eviction only once the capacity is exceeded
ShouldEvict_Late(count, maxN) == count > maxN

\* segmentItemList.length == this.maxSegmentNum_
ShouldEvict(count, maxN) == count = maxN

\* segmentItemList.pop(): the newest item taken for the oldest
OldItem_Newest(items) == items[Len(items)]

\* segmentItemList.shift()
OldItem(items) == Head(items)

\* Array.prototype.indexOf, 1-based, 0 when absent
IndexOf(items, item) ==
  IF \E k \in 1..Len(items) : items[k] = item
  THEN CHOOSE k \in 1..Len(items) : items[k] = item /\ \A m \in 1..(k - 1) : items[m] # item
  ELSE 0

\* mediaPlaylistTemplate.splice(index, 1); splice(-1, 1) for an absent item
\* removes the last one
SpliceOut(items, index) ==
  IF index = 0 THEN SubSeq(items, 1, Len(items) - 1)
  ELSE [k \in 1..(Len(items) - 1) |-> IF k < index THEN items[k] ELSE items[k + 1]]

\* the number not parsed: "5" + 1 is "51"
NewSequenceNumber_Concat(oldSequenceNumber) == oldSequenceNumber * 10 + 1

\* oldSequenceNumber + 1
NewSequenceNumber(oldSequenceNumber) == oldSequenceNumber + 1

\* the loops move on after the playlist file is written
Published(t, tpl) ==
  /\ playlist' = [playlist EXCEPT ![t] = tpl]
  /\ playlistFile' = [playlistFile EXCEPT ![t] = tpl]
  /\ committed' = [committed EXCEPT ![t] = Append(@, CurrentUrl)]
  /\ total' = [total EXCEPT ![t] = @ + 1]
  /\ LET nxt == LoopAfter(i, j, Len(segmentURIList_["audio"]))
     IN i' = nxt.i /\ j' = nxt.j /\ pc' = nxt.pc
  /\ UNCHANGED <<err, failStage>>

\* the decrypted segment is added to the media playlist and the file rewritten
AppendSegment ==
  /\ pc = "append"
  /\ UNCHANGED tickVars
  /\ Started("append")
  /\ LET t == CurrentTrack
         tpl == playlist[t]
         segmentTemplate == SegmentTemplate(CurrentDuration, SegmentName(CurrentUrl))
         oldItem == OldItem(tpl.items)
         spliced == SpliceOut(tpl.items, IndexOf(tpl.items, oldItem))
     IN IF ~ShouldEvict(Len(tpl.items), maxSegmentNum_)
        THEN /\ Published(t, [tpl EXCEPT !.items = Append(tpl.items, segmentTemplate)])
             /\ UNCHANGED resultFiles
        ELSE \/ \* fs.unlinkSync throws
                /\ playlist' = [playlist EXCEPT ![t].items = spliced]
                /\ Throw("unlink", "fs")
                /\ UNCHANGED <<playlistFile, resultFiles, committed, total, i, j>>
             \/ \* the first item holds no #EXT-X-MEDIA-SEQUENCE
                /\ oldItem.name \in resultFiles[t]
                /\ ~tpl.hasSeq
                /\ playlist' = [playlist EXCEPT ![t].items = spliced]
                /\ resultFiles' = [resultFiles EXCEPT ![t] = @ \ {oldItem.name}]
                /\ Throw("header", "TypeError")
                /\ UNCHANGED <<playlistFile, committed, total, i, j>>
             \/ /\ oldItem.name \in resultFiles[t]
                /\ tpl.hasSeq
                /\ resultFiles' = [resultFiles EXCEPT ![t] = @ \ {oldItem.name}]
                /\ Published(t, [tpl EXCEPT !.items = Append(spliced, segmentTemplate),
                                            !.seq = NewSequenceNumber(tpl.seq)])
  /\ UNCHANGED <<maxSegmentNum_, initFileName, window, lastSegmentURI, segmentURIList_,
                 segmentDurationList_, lastURI, savedFiles, mergedFiles, cycle, done,
                 playlistStart, alignedFrom, segmentDuration, pacing>>

\* ------------------------------------------------------------ end of cycle
Range(list) == {list[k] : k \in 1..Len(list)}

\* Date.now() - checkStart - updateDuration with the updateDuration added
ProcessPeriod_Added(elapsed, updateDuration) == elapsed + updateDuration

\* Date.now() - checkStart - updateDuration
ProcessPeriod(elapsed, updateDuration) == elapsed - updateDuration

\* what sleep_ is called with; an undefined segmentDuration gives NaN, and
\* no number is less than NaN
SleepingDuration(duration, processPeriod) ==
  LET segmentDurationMiliSec == duration * 1000
  IN IF duration # UndefinedDuration /\ processPeriod < segmentDurationMiliSec
     THEN segmentDurationMiliSec - processPeriod
     ELSE NoSleep

\* the scratch directories are emptied, the cycle sleeps for what is left of
\* the segment's duration, the references are cleared and the last URIs
\* returned to the driver, which keeps them for the next constructor
Finish ==
  /\ pc = "cleanup"
  /\ UNCHANGED tickVars
  /\ \E elapsed \in {400, 3000}, updateDuration \in {0, 2000} :
       pacing' = [elapsed |-> elapsed, updateDuration |-> updateDuration,
                  slept |-> SleepingDuration(segmentDuration,
                                             ProcessPeriod(elapsed, updateDuration))]
  /\ savedFiles' = NoFiles
  /\ mergedFiles' = NoFiles
  /\ segmentURIList_' = EmptyLists
  /\ segmentDurationList_' = EmptyLists
  /\ lastSegmentURI' = lastURI
  /\ done' = [t \in Tracks |-> done[t] \cup Range(committed[t])]
  /\ pc' = "idle"
  /\ UNCHANGED <<maxSegmentNum_, initFileName, window, i, j, lastURI, playlist,
                 playlistFile, resultFiles, err, failStage, cycle, committed, total,
                 playlistStart, alignedFrom, segmentDuration, log>>

Next == Construct \/ Align \/ Fetch \/ Merge \/ Decrypt \/ AppendSegment \/ Finish

Spec == Init /\ [][Next]_vars

\* ------------------------------------------------------------ delayed_tick
\* the closure of one tickAfter call: its alive flag and its timeout; cleared
\* records clearTimeout, ran that the timeout callback has executed, and the
\* history fields clearedAtRun and ticked what held when it executed and how
\* often it called onTick_
NewTimer(delayInSeconds) ==
  [alive |-> TRUE, delay |-> delayInSeconds * 1000, cleared |-> FALSE, ran |-> FALSE,
   clearedAtRun |-> FALSE, ticked |-> 0]

\* the closure that clears the timeout and leaves alive as it is
CancelPending_TimeoutOnly(timer) == [timer EXCEPT !.cleared = TRUE]

\* this.cancelPending_(): clearTimeout(timeoutId); alive = false
CancelPending(timer) == [timer EXCEPT !.cleared = TRUE, !.alive = FALSE]

\* the timers and cancelPending_ after stop()
AfterStop ==
  IF cancelPending_ # NoTimer
  THEN [timers |-> [timers EXCEPT ![cancelPending_] = CancelPending(@)],
        cancelPending_ |-> NoTimer]
  ELSE [timers |-> timers, cancelPending_ |-> cancelPending_]

\* tickAfter(delayInSeconds): stop(), then a new closure and its timeout
TickAfter ==
  /\ Len(timers) < MaxTicks
  /\ \E delayInSeconds \in {0, 2} :
       timers' = Append(AfterStop.timers, NewTimer(delayInSeconds))
  /\ cancelPending_' = Len(timers) + 1
  /\ UNCHANGED <<stops, saverVars>>

\* stop()
Stop ==
  /\ stops < MaxStops
  /\ timers' = AfterStop.timers
  /\ cancelPending_' = AfterStop.cancelPending_
  /\ stops' = stops + 1
  /\ UNCHANGED saverVars

\* the wrapped callback calling onTick_ whatever alive is
OnTickCalls_Unchecked(timer) == 1

\* the wrapped callback: onTick_ is called when alive holds
OnTickCalls(timer) == IF timer.alive THEN 1 ELSE 0

\* the timeout of a closure executes: once, and possibly although it was
\* cleared
TimeoutRuns ==
  /\ \E k \in 1..Len(timers) :
       /\ ~timers[k].ran
       /\ timers' = [timers EXCEPT ![k].ran = TRUE,
                                   ![k].clearedAtRun = timers[k].cleared,
                                   ![k].ticked = @ + OnTickCalls(timers[k])]
  /\ UNCHANGED <<cancelPending_, stops, saverVars>>

TickInit ==
  /\ Init
  /\ maxSegmentNum_ = 1
  /\ initFileName = InitFile
  /\ playlist = [t \in Tracks |-> Template(TRUE, 0, <<>>)]

TickNext == TickAfter \/ Stop \/ TimeoutRuns

SpecTick == TickInit /\ [][TickNext]_vars

\* ------------------------------------------------------------------ claims
Refs(t) == References(window[t])

\* the references after position k, behind the init element
InitThen(refs, from) == <<InitURI>> \o SubSeq(refs, from, Len(refs))

\* C1: when the last-processed URI is the URI of a reference of a non-empty
\* index, reconciliation gives the init element followed by exactly the
\* references strictly after that one, in index order; the init element alone
\* when it is the final reference.
C1_AfterLastProcessed ==
  pc = "constructed" =>
    \A t \in Tracks : \A k \in 1..Len(Refs(t)) :
      Refs(t)[k] = lastSegmentURI[t] =>
        segmentURIList_[t] = InitThen(Refs(t), k + 1)

\* C2: over successful cycles that hand each returned URI to the next
\* constructor, with an index that only gains at its tail and loses at its
\* head, no segment is appended to a track's playlist in two cycles.
C2_NoReprocessing ==
  pc = "cleanup" => \A t \in Tracks : Range(committed[t]) \cap done[t] = {}

Names(items) == {items[k].name : k \in 1..Len(items)}

\* C3: no step deletes a media file that an entry of the track's playlist
\* names after the step, the entry appended by the step included.
C3_NoDeleteWhileNamed ==
  [][\A t \in Tracks :
       (resultFiles[t] \ resultFiles'[t]) \cap Names(playlist'[t].items) = {}]_vars

\* C4: with maxSegmentNum >= 1 and a playlist that starts within the
\* capacity, the playlist never holds more than maxSegmentNum entries, in
\* memory or in the file written.
C4_PlaylistBound ==
  \A t \in Tracks : /\ Len(playlist[t].items) <= maxSegmentNum_
                    /\ Len(playlistFile[t].items) <= maxSegmentNum_

C4_Witness ==
  \E t \in Tracks : /\ Len(playlistFile[t].items) = maxSegmentNum_
                    /\ total[t] > maxSegmentNum_

\* entries that have left a template that has seen n appends (it starts empty)
Evicted(tpl, n) == n - Len(tpl.items)

\* C5: the media-sequence number never decreases; an append that is carried
\* through evicts at most one entry and raises the number by exactly the
\* number of entries it evicts; the number in the playlist file stays equal
\* to its initial value plus the entries evicted so far, and the template in
\* memory is the file unless the cycle has thrown.
C5_MediaSequence ==
  [][\A t \in Tracks :
       /\ playlist'[t].seq >= playlist[t].seq
       /\ total'[t] = total[t] + 1 =>
            LET gone == Len(playlist[t].items) + 1 - Len(playlist'[t].items)
            IN gone \in {0, 1} /\ playlist'[t].seq = playlist[t].seq + gone
       /\ total'[t] = total[t] => playlistFile'[t] = playlistFile[t]
       /\ playlistFile'[t].seq - Evicted(playlistFile'[t], total'[t])
            = playlistFile[t].seq - Evicted(playlistFile[t], total[t])
       /\ pc' # "failed" => playlist'[t] = playlistFile'[t]]_vars

C5_Witness ==
  \E t \in Tracks : Evicted(playlistFile[t], total[t]) >= 2 /\ playlistFile[t].seq >= 2

\* the media segments of the aligned list up to 0-based position k
MediaUpTo(t, k) == SubSeq(segmentURIList_[t], 2, k + 1)

DecryptFailed == pc = "failed" /\ failStage = "decrypt"

\* C6 as stated: when the decryption of the k-th media segment fails, on
\* either track, the cycle throws the segment-manipulation error and both
\* playlists hold the media segments 1..k-1 of this cycle and none of k..n.
C6_NoneFromKOnEitherTrack ==
  DecryptFailed =>
    /\ err = "SEGMENT_MANIPULATION_FAILED"
    /\ \A t \in Tracks : committed[t] = MediaUpTo(t, i - 1) /\ playlistFile[t] = playlist[t]

\* C6 amended: the video playlist holds the media segments 1..k-1 of this
\* cycle; the audio playlist holds 1..k-1 when the audio decryption failed
\* and 1..k when the video decryption failed; nothing later is committed and
\* every commit is in the playlist file.
C6_CommittedBeforeFailure ==
  DecryptFailed =>
    /\ err = "SEGMENT_MANIPULATION_FAILED"
    /\ committed["video"] = MediaUpTo("video", i - 1)
    /\ committed["audio"] = MediaUpTo("audio", IF CurrentTrack = "video" THEN i ELSE i - 1)
    /\ \A t \in Tracks : playlistFile[t] = playlist[t]

C6_Witness == DecryptFailed /\ CurrentTrack = "video" /\ i >= 2

\* C7: without a last-processed URI, or with one that is the URI of no
\* reference, reconciliation of n >= 1 references gives the init element and
\* the last min(n, maxSegmentNum) references in index order, with their
\* durations.
C7_ColdStartFallback ==
  pc = "constructed" =>
    \A t \in Tracks :
      (Len(Refs(t)) > 0 /\ lastSegmentURI[t] \notin Range(Refs(t))) =>
        LET n == Len(Refs(t))
            kept == SubSeq(Refs(t), n - Min(n, maxSegmentNum_) + 1, n)
        IN /\ segmentURIList_[t] = <<InitURI>> \o kept
           /\ segmentDurationList_[t] = <<0>> \o [k \in 1..Len(kept) |-> RefDuration(kept[k])]

C7_Witness ==
  /\ pc = "constructed"
  /\ \E t \in Tracks : /\ lastSegmentURI[t] # NullURI
                       /\ lastSegmentURI[t] \notin Range(Refs(t))
                       /\ Len(Refs(t)) > maxSegmentNum_

\* C8: after reconciliation a track with a non-empty index has a URI list
\* of length >= 1 that starts with the init URI and a duration list that
\* starts with 0; a track with an empty index has two empty lists.
C8_InitFirst ==
  pc = "constructed" =>
    \A t \in Tracks :
      IF Len(Refs(t)) > 0
      THEN /\ Len(segmentURIList_[t]) >= 1
           /\ segmentURIList_[t][1] = InitURI
           /\ Len(segmentDurationList_[t]) >= 1
           /\ segmentDurationList_[t][1] = 0
      ELSE segmentURIList_[t] = <<>> /\ segmentDurationList_[t] = <<>>

C8_Witness ==
  /\ pc = "constructed"
  /\ Len(Refs("audio")) = 0
  /\ Len(Refs("video")) > 0
  /\ lastSegmentURI["video"] \in Range(Refs("video"))

IsPrefix(a, b) == Len(a) <= Len(b) /\ a = SubSeq(b, 1, Len(a))

\* C9: the URI lists the loop runs over have the same length, the smaller
\* of the two lengths before alignment, and each is a prefix of the list it
\* was before alignment.
C9_Aligned ==
  pc \in {"fetch", "merge", "decrypt", "append", "cleanup", "failed"} =>
    /\ Len(segmentURIList_["audio"]) = Len(segmentURIList_["video"])
    /\ Len(segmentURIList_["audio"]) = Min(Len(alignedFrom["audio"]), Len(alignedFrom["video"]))
    /\ \A t \in Tracks : IsPrefix(segmentURIList_[t], alignedFrom[t])

C9_Witness ==
  /\ pc = "fetch"
  /\ Len(alignedFrom["video"]) >= 2
  /\ Len(alignedFrom["audio"]) > Len(alignedFrom["video"])

\* the playlist entry of a committed URI
EntryOf(uri) == SegmentTemplate(IF uri = InitURI THEN 0 ELSE RefDuration(uri), SegmentName(uri))

LastOf(list, n) == SubSeq(list, Len(list) - n + 1, Len(list))

\* C10: when a cycle has run through, each playlist holds the most recent
\* min(maxSegmentNum, n + k) entries of its n entries at the start of the
\* cycle followed by the k commits of the cycle, in that order, and its
\* header has advanced by the number of entries that left.
C10_FifoWindow ==
  pc = "cleanup" =>
    \A t \in Tracks :
      LET history == playlistStart[t].items \o [k \in 1..Len(committed[t]) |-> EntryOf(committed[t][k])]
          kept == Min(maxSegmentNum_, Len(history))
      IN /\ playlist[t].items = LastOf(history, kept)
         /\ playlist[t].seq = playlistStart[t].seq + (Len(history) - kept)
         /\ playlistFile[t] = playlist[t]

C10_Witness ==
  /\ pc = "cleanup"
  /\ \E t \in Tracks : /\ Len(playlistStart[t].items) >= 1
                       /\ Len(committed[t]) >= 2
                       /\ Len(playlistStart[t].items) + Len(committed[t]) > maxSegmentNum_
                       /\ Range(committed[t]) \cap done[t] = {}

\* C11: a cycle that returns after processing segments has slept for
\* slack = duration of the last processed segment * 1000 - (elapsed -
\* updateDuration) milliseconds when slack > 0 and has not slept when
\* slack <= 0.
C11_Pacing ==
  (pc = "idle" /\ cycle > 0 /\ lastURI["video"] # NullURI) =>
    LET slack == RefDuration(lastURI["video"]) * 1000
                   - (pacing.elapsed - pacing.updateDuration)
    IN pacing.slept = IF slack > 0 THEN slack ELSE NoSleep

C11_Witness ==
  /\ pc = "idle"
  /\ lastURI["video"] # NullURI
  /\ pacing.elapsed = 400
  /\ pacing.updateDuration = 2000
  /\ pacing.slept = 3600

Pending(k) == ~timers[k].ran /\ ~timers[k].cleared

\* C12: at most one call of onTick is pending; a tickAfter cancels the tick
\* set before it; the timeout of a tick calls onTick once when it executes
\* without having been cancelled, and a cancelled tick never calls it.
C12_OnePendingTick ==
  /\ Cardinality({k \in 1..Len(timers) : Pending(k)}) <= 1
  /\ \A k \in 1..Len(timers) :
       /\ k < Len(timers) => timers[k].cleared
       /\ timers[k].ticked = IF timers[k].ran /\ ~timers[k].clearedAtRun THEN 1 ELSE 0

C12_Witness ==
  /\ stops = 0
  /\ Len(timers) = 3
  /\ timers[1].ran /\ timers[1].ticked = 1
  /\ timers[2].ran /\ timers[2].clearedAtRun /\ timers[2].ticked = 0
  /\ timers[3].ran /\ timers[3].ticked = 1

\* C13: a tick that stop() has cancelled calls onTick no more, also when its
\* timeout still executes; stop() with no tick pending leaves the pending
\* ticks and the calls of onTick as they are, and stop() right after stop()
\* leaves everything as it is.
C13_StopCancels ==
  [][/\ \A k \in 1..Len(timers) : timers[k].cleared => timers'[k].ticked = timers[k].ticked
     /\ stops' = stops + 1 =>
          /\ Len(timers') = Len(timers)
          /\ \A k \in 1..Len(timers) :
               /\ timers'[k].ticked = timers[k].ticked
               /\ timers'[k].ran = timers[k].ran
               /\ ~Pending(k)'
          /\ cancelPending_ = NoTimer => timers' = timers /\ cancelPending_' = NoTimer]_vars

C13_Witness ==
  /\ stops = 2
  /\ \E k \in 1..Len(timers) :
       timers[k].ran /\ timers[k].clearedAtRun /\ timers[k].ticked = 0 /\ k = Len(timers)

\* the stage that follows a stage of the same segment
NextStage(stage) ==
  CASE stage = "fetch" -> "merge"
    [] stage = "merge" -> "decrypt"
    [] stage = "decrypt" -> "append"
    [] OTHER -> "none"

\* b is the step after a: the next stage of a's segment, or the fetch of the
\* segment after a's once a's segment is through (its append, or the fetch of
\* the element at index 0)
Follows(a, b) ==
  \/ /\ b.i = a.i
     /\ b.track = a.track
     /\ b.stage = NextStage(a.stage)
     /\ a.i = 0 => a.stage # "fetch" \/ SegmentName(InitURI) # InitFile
  \/ /\ a.stage = "append" \/ (a.stage = "fetch" /\ a.i = 0)
     /\ b.stage = "fetch"
     /\ IF a.track = "audio" THEN b.track = "video" /\ b.i = a.i
                             ELSE b.track = "audio" /\ b.i = a.i + 1

\* C14: the steps of a cycle start one after the other in the order index 0
\* audio, index 0 video, index 1 audio, ...; a media segment goes through
\* fetch, merge, decrypt, append in that order, each started only after the
\* one before returned without a throw; the fetch of the next segment starts
\* only with the playlist file equal to the template.
C14_Sequential ==
  /\ Len(log) > 0 => log[1] = [stage |-> "fetch", i |-> 0, track |-> "audio"]
  /\ \A n \in 1..(Len(log) - 1) : Follows(log[n], log[n + 1])
  /\ \A n \in 1..Len(log) : log[n].i >= 1 /\ log[n].stage = "append" =>
       /\ n > 3
       /\ log[n - 3].stage = "fetch" /\ log[n - 3].i = log[n].i
       /\ log[n - 3].track = log[n].track
  /\ pc = "fetch" => playlistFile = playlist

C14_Witness ==
  /\ pc = "cleanup"
  /\ Len(log) = 18
  /\ log[10] = [stage |-> "append", i |-> 1, track |-> "video"]
  /\ log[11] = [stage |-> "fetch", i |-> 2, track |-> "audio"]

\* C15: the element at index 0 is fetched and never merged, decrypted or
\* appended, whatever the base name of its URI; when the loop has run through,
\* every element at index >= 1 has been appended exactly once.
C15_InitOnlyFetched ==
  /\ \A n \in 1..Len(log) : log[n].i = 0 => log[n].stage = "fetch"
  /\ pc = "cleanup" =>
       \A t \in Tracks : committed[t] = SubSeq(segmentURIList_[t], 2, Len(segmentURIList_[t]))

CycleEnded == pc = "failed" \/ (pc = "idle" /\ cycle > 0)

\* C16: when a cycle has ended, by returning or by throwing, the audio and
\* video directories under the download root and the merge root are empty.
C16_ScratchEmpty ==
  CycleEnded => savedFiles = NoFiles /\ mergedFiles = NoFiles

Lead == Len(committed["audio"]) - Len(committed["video"])

C18_OneErrorNoRetry ==
  /\ pc = "failed" => err = "SEGMENT_MANIPULATION_FAILED"
  /\ \A m, n \in 1..Len(log) : log[m] = log[n] => m = n

\* C19: when a cycle has returned, the URI returned for a track whose index
\* was not empty is not null, is not the init URI, and is the URI of the last
\* segment appended to the track's playlist in the cycle.
C19_ReturnedToken ==
  (pc = "idle" /\ cycle > 0) =>
    \A t \in Tracks : Len(Refs(t)) > 0 =>
      /\ lastSegmentURI[t] # NullURI
      /\ lastSegmentURI[t] # InitURI
      /\ Len(committed[t]) > 0
      /\ lastSegmentURI[t] = committed[t][Len(committed[t])]

\* C20: from the constructor to the end of processing, a track with a
\* non-empty URI list has a duration list of the same length, the init URI
\* first and the duration 0 first.
C20_TrackState ==
  pc \in {"constructed", "fetch", "merge", "decrypt", "append", "cleanup", "failed"} =>
    \A t \in Tracks : Len(segmentURIList_[t]) > 0 =>
      /\ Len(segmentURIList_[t]) = Len(segmentDurationList_[t])
      /\ segmentURIList_[t][1] = InitURI
      /\ segmentDurationList_[t][1] = 0

====
